---- MODULE Spec2Model ----
(***************************************************************************)
(* A model of yaj (src/src/lib.rs): the JSON lexer `lex`, its number       *)
(* scanner `lex_number`, and the slice-based structural parser             *)
(* `parse_value` / `parse_array` / `parse_object` behind `parse`.          *)
(*                                                                         *)
(* The source text is a sequence of one-character strings.  Every          *)
(* character of the alphabets used here is ASCII, so a byte offset and a   *)
(* character index coincide.  Offsets are 0-based as in the code; the      *)
(* character at offset i is source[i + 1].                                 *)
(***************************************************************************)
EXTENDS Integers, Sequences, FiniteSets, TLC

VARIABLES
    source,   \* the text handed to lex / parse
    doc,      \* the document the text was written from (NoDoc: from no document)
    pc,       \* "start" | "lex" | "string" | "number" | "lexed" | "done" | "panic" | "call" | "returned"
    indices,  \* the CharIndices iterator: offset of the next character it yields
    idx,      \* offset of the first character of the token being scanned
    state,    \* NumberLexerState of lex_number
    current,  \* lex_number's `current`
    tokens,   \* the Vec<JsonToken> built by lex
    called,   \* which parser function was applied to `tokens`
    result    \* what the program returned, or how it aborted

vars == <<source, doc, pc, indices, idx, state, current, tokens, called, result>>

(***************************************************************************)
(* Bounds of the model.                                                    *)
(***************************************************************************)
MaxLen == 3

MaxNumLen == 4

MaxToks == 4

MaxDocToks == 11

MaxStructLen == 4

MaxStrLen == 7

MaxNearToks == 9

(***************************************************************************)
(* Characters.                                                             *)
(***************************************************************************)
Digits == {"0", "1", "2", "3", "4", "5", "6", "7", "8", "9"}

NonZeroDigits == Digits \ {"0"}

\* char::is_whitespace on the ASCII range
Whitespace == {" ", "\t", "\n", "\r"}

SingleCharTokens == {"{", "}", ",", ":", "[", "]"}

SimpleEscapes == {"\"", "\\", "/", "b", "f", "n", "r", "t"}


\* The characters of the sources of Spec; everything the lexer tells apart has
\* a representative ("x" is a character no token starts with, and no escape).
SrcChars == {" ", "{", "}", "[", "]", ",", ":", "\"", "\\",
             "0", "1", "-", "+", ".", "e", "u", "t", "x"}

KwTrue == <<"t", "r", "u", "e">>

KwFalse == <<"f", "a", "l", "s", "e">>

KwNull == <<"n", "u", "l", "l">>

\* A source is a concatenation of fragments: single characters and the three
\* keyword literals.
SrcFrags == {<<c>> : c \in SrcChars} \cup {KwTrue, KwFalse, KwNull}

\* The characters of the sources of SpecNumber.
NumChars == {"0", "1", "-", "+", ".", "e", "E", ",", "}", "]", " ", ":"}

RECURSIVE Flatten(_)
Flatten(fs) == IF fs = <<>> THEN <<>> ELSE Head(fs) \o Flatten(Tail(fs))

SeqsUpTo(S, n) == UNION {[1..k -> S] : k \in 0..n}

Sources == {Flatten(fs) : fs \in SeqsUpTo(SrcFrags, MaxLen)}

NumSources == SeqsUpTo(NumChars, MaxNumLen)

Min(a, b) == IF a < b THEN a ELSE b

\* &source[lo..hi]
Slice(s, lo, hi) == SubSeq(s, lo + 1, hi)

\* source.get(lo..hi): None when the range leaves the text
Get(s, lo, hi) == IF hi <= Len(s) THEN <<Slice(s, lo, hi)>> ELSE <<>>

(***************************************************************************)
(* Tokens and results.                                                     *)
(***************************************************************************)
\* JsonToken { slice: &source[lo..hi], token_type }
JsonToken(tt, lo, hi) == [token_type |-> tt, lo |-> lo, hi |-> hi]

NoResult == [tag |-> "None"]

NoDoc == [kind |-> "None"]

\* panic!(..): the process aborts; no value and no ParseError is produced
Panic(msg) == [tag |-> "Panic", msg |-> msg]

\* token_type_single_char with ':' taken for ','
token_type_column_as_comma(chr) ==
    CASE chr = "{" -> "LeftBrace"
      [] chr = "}" -> "RightBrace"
      [] chr = "," -> "Comma"
      [] chr = ":" -> "Comma"
      [] chr = "[" -> "LeftBracket"
      [] chr = "]" -> "RightBracket"

token_type_single_char(chr) ==
    CASE chr = "{" -> "LeftBrace"
      [] chr = "}" -> "RightBrace"
      [] chr = "," -> "Comma"
      [] chr = ":" -> "Column"
      [] chr = "[" -> "LeftBracket"
      [] chr = "]" -> "RightBracket"

\* forward that skips nothing
forward_nothing(s, it, skip) == it

\* forward(iter, skip): skip calls of next(), which stop yielding at the end
forward(s, it, skip) == Min(it + skip, Len(s))

(***************************************************************************)
(* lex: one action per path through one iteration of its loops.            *)
(***************************************************************************)
\* indices_next that leaves the iterator where it is
indices_next_stuck(it) == it

\* indices.next() of `while let Some((idx, chr)) = indices.next()`: the
\* iterator's position after it yielded the character at offset it
indices_next(it) == it + 1

AtChar == pc = "lex" /\ indices < Len(source)

Chr == source[indices + 1]

LexFail(msg) ==
    /\ pc' = "panic"
    /\ result' = Panic(msg)

\* while let Some(..) = indices.next() fails: lex returns tokens
LexReturn ==
    /\ pc = "lex"
    /\ indices = Len(source)
    /\ pc' = "lexed"
    /\ UNCHANGED <<source, doc, indices, idx, state, current, tokens, called, result>>

LexWhitespace ==
    /\ AtChar
    /\ Chr \in Whitespace
    /\ indices' = indices_next(indices)
    /\ idx' = indices
    /\ UNCHANGED <<source, doc, pc, state, current, tokens, called, result>>

LexSingleChar ==
    /\ AtChar
    /\ Chr \in SingleCharTokens
    /\ idx' = indices
    /\ tokens' = Append(tokens, JsonToken(token_type_single_char(Chr), indices, indices + 1))
    /\ indices' = indices_next(indices)
    /\ UNCHANGED <<source, doc, pc, state, current, called, result>>

LexStringStart ==
    /\ AtChar
    /\ Chr = "\""
    /\ idx' = indices
    /\ indices' = indices_next(indices)
    /\ pc' = "string"
    /\ UNCHANGED <<source, doc, state, current, tokens, called, result>>

\* the keyword arms 't', 'f', 'n'
Keyword(chr) ==
    CASE chr = "t" -> [lit |-> KwTrue, tt |-> "True"]
      [] chr = "f" -> [lit |-> KwFalse, tt |-> "False"]
      [] chr = "n" -> [lit |-> KwNull, tt |-> "Null"]

LexKeyword ==
    /\ AtChar
    /\ Chr \in {"t", "f", "n"}
    /\ idx' = indices
    /\ LET kw == Keyword(Chr)
           next_idx == indices + Len(kw.lit)
       IN  IF Get(source, indices, next_idx) = <<kw.lit>>
           THEN /\ tokens' = Append(tokens, JsonToken(kw.tt, indices, next_idx))
                /\ indices' = forward(source, indices_next(indices), Len(kw.lit) - 1)
                /\ UNCHANGED <<pc, result>>
           ELSE /\ LexFail("Failed to lex keyword")
                /\ indices' = indices_next(indices)
                /\ UNCHANGED tokens
    /\ UNCHANGED <<source, doc, state, current, called>>

LexInvalid ==
    /\ AtChar
    /\ Chr \notin Whitespace \cup SingleCharTokens \cup Digits \cup {"\"", "-", "t", "f", "n"}
    /\ idx' = indices
    /\ indices' = indices_next(indices)
    /\ LexFail("Invalid char encountered")
    /\ UNCHANGED <<source, doc, state, current, tokens, called>>

(***************************************************************************)
(* The string scanner: the inner loop of the '"' arm.                      *)
(***************************************************************************)
InString == pc = "string"

StringChar ==
    /\ InString
    /\ indices < Len(source)
    /\ Chr \notin {"\\", "\""}
    /\ indices' = indices + 1
    /\ UNCHANGED <<source, doc, pc, idx, state, current, tokens, called, result>>

StringEscape ==
    /\ InString
    /\ indices < Len(source)
    /\ Chr = "\\"
    /\ IF indices + 1 < Len(source)
       THEN LET escaped == source[indices + 2]
            IN  IF escaped \in SimpleEscapes
                THEN /\ indices' = indices + 2
                     /\ UNCHANGED <<pc, result>>
                ELSE IF escaped = "u"
                THEN /\ indices' = forward(source, indices + 2, 4)
                     /\ UNCHANGED <<pc, result>>
                ELSE /\ indices' = indices + 2
                     /\ LexFail("Unexpected escaped char while lexing a string")
       ELSE /\ indices' = indices + 1
            /\ LexFail("Unexpected end of file while lexing a string with escape chars")
    /\ UNCHANGED <<source, doc, idx, state, current, tokens, called>>

StringClose ==
    /\ InString
    /\ indices < Len(source)
    /\ Chr = "\""
    /\ tokens' = Append(tokens, JsonToken("String", idx, indices + 1))
    /\ indices' = indices + 1
    /\ pc' = "lex"
    /\ UNCHANGED <<source, doc, idx, state, current, called, result>>

StringEof ==
    /\ InString
    /\ indices = Len(source)
    /\ LexFail("Unexpected end of file while lexing a string")
    /\ UNCHANGED <<source, doc, indices, idx, state, current, tokens, called>>

(***************************************************************************)
(* lex_number: the number scanner, and the arm of lex that calls it.       *)
(***************************************************************************)
\* let mut state = match chr { '-' => Sign, '0' => FirstZero, _ => FirstDigits }
InitialNumberState(chr) ==
    IF chr = "-" THEN "Sign" ELSE IF chr = "0" THEN "FirstZero" ELSE "FirstDigits"

Goto(st) == [kind |-> "goto", state |-> st]

Break == [kind |-> "break", state |-> "-"]

Fail == [kind |-> "panic", state |-> "-"]

\* The arms of match state { .. } of lex_number's loop, on a character the
\* iterator yielded.
SignArm(chr) ==
    IF chr = "0" THEN Goto("FirstZero")
    ELSE IF chr \in NonZeroDigits THEN Goto("FirstDigits")
    ELSE Fail

FirstDigitsArm(chr) ==
    IF chr \in Digits THEN Goto("FirstDigits")
    ELSE IF chr = "." THEN Goto("FractionDot")
    ELSE IF chr \in {"e", "E"} THEN Goto("Exponent")
    ELSE Break

\* FirstZeroArm without the leading-zero rule
FirstZeroArmLenient(chr) ==
    IF chr \in Digits THEN Goto("FirstDigits")
    ELSE IF chr = "." THEN Goto("FractionDot")
    ELSE IF chr \in {"e", "E"} THEN Goto("Exponent")
    ELSE Break

FirstZeroArm(chr) ==
    IF chr \in Digits \cup {"-"} THEN Fail
    ELSE IF chr = "." THEN Goto("FractionDot")
    ELSE IF chr \in {"e", "E"} THEN Goto("Exponent")
    ELSE Break

FractionDotArm(chr) == IF chr \in Digits THEN Goto("FractionDigits") ELSE Fail

FractionDigitsArm(chr) ==
    IF chr \in Digits THEN Goto("FractionDigits")
    ELSE IF chr \in {"e", "E"} THEN Goto("Exponent")
    ELSE Break

ExponentArm(chr) ==
    IF chr \in Digits THEN Goto("ExponentDigits")
    ELSE IF chr \in {"-", "+"} THEN Goto("ExponentSign")
    ELSE Fail

ExponentSignArm(chr) == IF chr \in Digits THEN Goto("ExponentDigits") ELSE Fail

ExponentDigitsArm(chr) == IF chr \in Digits THEN Goto("ExponentDigits") ELSE Break

NumberMatch(st, chr) ==
    CASE st = "Sign" -> SignArm(chr)
      [] st = "FirstDigits" -> FirstDigitsArm(chr)
      [] st = "FirstZero" -> FirstZeroArm(chr)
      [] st = "FractionDot" -> FractionDotArm(chr)
      [] st = "FractionDigits" -> FractionDigitsArm(chr)
      [] st = "Exponent" -> ExponentArm(chr)
      [] st = "ExponentSign" -> ExponentSignArm(chr)
      [] st = "ExponentDigits" -> ExponentDigitsArm(chr)

\* None if state == Sign => panic!(..); None => break (current + 1, None)
NumberAtEof(st) == IF st = "Sign" THEN Fail ELSE Break

\* the arm '-' | '0' .. '9' of lex, up to the first statement of lex_number's loop
LexNumberStart ==
    /\ AtChar
    /\ Chr \in Digits \cup {"-"}
    /\ idx' = indices
    /\ state' = InitialNumberState(Chr)
    /\ current' = indices
    /\ indices' = indices_next(indices)
    /\ pc' = "number"
    /\ UNCHANGED <<source, doc, tokens, called, result>>

InNumber == pc = "number"

NumberOutcome ==
    IF indices < Len(source) THEN NumberMatch(state, Chr) ELSE NumberAtEof(state)

\* an iteration of lex_number's loop that stays in the loop
NumberStep ==
    /\ InNumber
    /\ NumberOutcome.kind = "goto"
    /\ state' = NumberOutcome.state
    /\ current' = indices
    /\ indices' = indices + 1
    /\ UNCHANGED <<source, doc, pc, idx, tokens, called, result>>

\* an iteration of lex_number's loop that panics
NumberPanic ==
    /\ InNumber
    /\ NumberOutcome.kind = "panic"
    /\ indices' = Min(indices + 1, Len(source))
    /\ current' = IF indices < Len(source) THEN indices ELSE current
    /\ LexFail("Unexpected char or end of file while lexing a number")
    /\ UNCHANGED <<source, doc, idx, state, tokens, called>>

\* AfterNumber with the terminator left untokenized
AfterNumberDropped(next_idx, next_char) ==
    IF next_char = <<>> THEN [ok |-> TRUE, push |-> <<>>]
    ELSE [ok |-> next_char[1] \in Whitespace \cup {",", "}", "]"}, push |-> <<>>]

\* AfterNumber that goes on whatever ended the number
AfterNumberLenient(next_idx, next_char) ==
    IF next_char # <<>> /\ next_char[1] \in {",", "}", "]"}
    THEN [ok |-> TRUE,
          push |-> <<JsonToken(token_type_single_char(next_char[1]), next_idx, next_idx + 1)>>]
    ELSE [ok |-> TRUE, push |-> <<>>]

\* match next_char { .. } of lex: the tokens pushed after the Number token
\* (<<>> when lex panics: the terminator is neither a delimiter nor whitespace)
AfterNumber(next_idx, next_char) ==
    IF next_char = <<>> THEN [ok |-> TRUE, push |-> <<>>]
    ELSE IF next_char[1] \in {",", "}", "]"}
    THEN [ok |-> TRUE,
          push |-> <<JsonToken(token_type_single_char(next_char[1]), next_idx, next_idx + 1)>>]
    ELSE [ok |-> next_char[1] \in Whitespace, push |-> <<>>]

\* NumberEnd that counts the character that ended the number into it
NumberEndInclusive(some, it, cur) == IF some THEN it + 1 ELSE cur + 1

\* the offset lex_number returns: break (current, Some(other)) on the
\* character at it, break (current + 1, None) at the end of the text
NumberEnd(some, it, cur) == IF some THEN it ELSE cur + 1

\* the iteration of lex_number's loop that breaks, and the rest of the arm of lex
NumberBreak ==
    /\ InNumber
    /\ NumberOutcome.kind = "break"
    /\ LET some == indices < Len(source)
           next_idx == NumberEnd(some, indices, current)
           next_char == IF some THEN <<Chr>> ELSE <<>>
           after == AfterNumber(next_idx, next_char)
       IN  /\ tokens' = Append(tokens, JsonToken("Number", idx, next_idx)) \o after.push
           /\ current' = IF some THEN indices ELSE current
           /\ indices' = Min(indices + 1, Len(source))
           /\ IF after.ok
              THEN pc' = "lex" /\ UNCHANGED result
              ELSE LexFail("Number followed by an invalid character")
    /\ UNCHANGED <<source, doc, idx, state, called>>

Lex ==
    \/ LexReturn
    \/ LexWhitespace
    \/ LexSingleChar
    \/ LexStringStart
    \/ LexKeyword
    \/ LexInvalid
    \/ StringChar
    \/ StringEscape
    \/ StringClose
    \/ StringEof
    \/ LexNumberStart
    \/ NumberStep
    \/ NumberPanic
    \/ NumberBreak

(***************************************************************************)
(* JsonNumber::parse.  An integer is kept as its sign and its decimal      *)
(* digits without leading zeros, a float as sign, decimal mantissa without *)
(* leading or trailing zeros and a power of ten (the rounding of f64 is    *)
(* not modelled).                                                          *)
(***************************************************************************)
I64MaxDigits == <<"9","2","2","3","3","7","2","0","3","6","8","5","4","7","7","5","8","0","7">>

I64MinDigits == <<"9","2","2","3","3","7","2","0","3","6","8","5","4","7","7","5","8","0","8">>

DigitVal(c) ==
    CASE c = "0" -> 0 [] c = "1" -> 1 [] c = "2" -> 2 [] c = "3" -> 3 [] c = "4" -> 4
      [] c = "5" -> 5 [] c = "6" -> 6 [] c = "7" -> 7 [] c = "8" -> 8 [] c = "9" -> 9

RECURSIVE DigitsLeq(_, _)
\* a <= b for two digit strings of the same length
DigitsLeq(a, b) ==
    IF a = <<>> THEN TRUE
    ELSE IF DigitVal(Head(a)) # DigitVal(Head(b)) THEN DigitVal(Head(a)) < DigitVal(Head(b))
    ELSE DigitsLeq(Tail(a), Tail(b))

RECURSIVE StripLeadingZeros(_)
StripLeadingZeros(ds) ==
    IF ds # <<>> /\ Head(ds) = "0" THEN StripLeadingZeros(Tail(ds)) ELSE ds

RECURSIVE DigitRun(_, _)
\* how many digits the text holds from position i (1-based) on
DigitRun(text, i) ==
    IF i <= Len(text) /\ text[i] \in Digits THEN 1 + DigitRun(text, i + 1) ELSE 0

RECURSIVE DigitsToInt(_)
DigitsToInt(ds) ==
    IF ds = <<>> THEN 0 ELSE 10 * DigitsToInt(SubSeq(ds, 1, Len(ds) - 1)) + DigitVal(ds[Len(ds)])

\* i64::from_str: an optional sign, then one digit or more, within the range of i64
I64FromStr(text) ==
    LET signed == text # <<>> /\ text[1] \in {"-", "+"}
        neg == text # <<>> /\ text[1] = "-"
        ds == IF signed THEN Tail(text) ELSE text
        mag == StripLeadingZeros(ds)
        fits == \/ Len(mag) < 19
                \/ Len(mag) = 19 /\ DigitsLeq(mag, IF neg THEN I64MinDigits ELSE I64MaxDigits)
    IN  IF ds # <<>> /\ DigitRun(ds, 1) = Len(ds) /\ fits
        THEN <<[variant |-> "Integer", neg |-> neg /\ mag # <<>>, digits |-> mag]>>
        ELSE <<>>

RECURSIVE Normalise(_, _)
\* strip the mantissa's trailing zeros into the exponent
Normalise(mant, exp) ==
    IF mant = <<>> THEN [mant |-> <<>>, exp |-> 0]
    ELSE IF mant[Len(mant)] = "0" THEN Normalise(SubSeq(mant, 1, Len(mant) - 1), exp + 1)
    ELSE [mant |-> mant, exp |-> exp]

\* f64::from_str on a decimal literal: [sign] digits [. digits] [(e|E) [sign] digits]
\* with a digit in the integer or the fraction part, and one in a stated exponent
F64FromStr(text) ==
    LET signed == text # <<>> /\ text[1] \in {"-", "+"}
        neg == text # <<>> /\ text[1] = "-"
        i0 == IF signed THEN 2 ELSE 1
        ni == DigitRun(text, i0)
        i1 == i0 + ni
        dot == i1 <= Len(text) /\ text[i1] = "."
        nf == IF dot THEN DigitRun(text, i1 + 1) ELSE 0
        i2 == IF dot THEN i1 + 1 + nf ELSE i1
        hasExp == i2 <= Len(text) /\ text[i2] \in {"e", "E"}
        expSigned == hasExp /\ i2 + 1 <= Len(text) /\ text[i2 + 1] \in {"-", "+"}
        expNeg == expSigned /\ text[i2 + 1] = "-"
        i3 == IF expSigned THEN i2 + 2 ELSE i2 + 1
        ne == IF hasExp THEN DigitRun(text, i3) ELSE 0
        i4 == IF hasExp THEN i3 + ne ELSE i2
        e == IF hasExp THEN DigitsToInt(SubSeq(text, i3, i3 + ne - 1)) ELSE 0
        mant == StripLeadingZeros(SubSeq(text, i0, i1 - 1)
                                  \o (IF dot THEN SubSeq(text, i1 + 1, i1 + nf) ELSE <<>>))
        norm == Normalise(mant, (IF expNeg THEN 0 - e ELSE e) - nf)
    IN  IF ni + nf > 0 /\ (hasExp => ne > 0) /\ i4 = Len(text) + 1
        THEN <<[variant |-> "Float", neg |-> neg, digits |-> norm.mant, exp |-> norm.exp]>>
        ELSE <<>>

\* JsonNumber::parse: <<number>>, or <<>> when f64::from_str(..).unwrap() panics
JsonNumberParse(text) ==
    IF I64FromStr(text) # <<>> THEN I64FromStr(text) ELSE F64FromStr(text)

(***************************************************************************)
(* The structural parser.  A token slice &tokens[lo..hi] is the pair of    *)
(* its offsets in the Vec lex returned; a reference to a token is the      *)
(* token's offset in that Vec.                                             *)
(***************************************************************************)
Tok(i) == tokens[i + 1]

Text(tok) == Slice(source, tok.lo, tok.hi)

Ok(v) == [tag |-> "Ok", value |-> v]

\* ParseError::new(msg, &tokens[token], &tokens[view_lo..view_hi])
ParseError(msg, token, view_lo, view_hi) ==
    [tag |-> "Err", msg |-> msg, token |-> token, view |-> <<view_lo, view_hi>>]

\* the 5 of `let end = 5.min(self.view.len())`
ViewLimit == 5

\* <ParseError as Debug>::fmt: the tokens &self.view[..end] it prints
Shown(e) == [lo |-> e.view[1], hi |-> e.view[1] + Min(ViewLimit, e.view[2] - e.view[1])]

JsonString(lo, hi) == [kind |-> "String", lo |-> lo, hi |-> hi]

JsonNumber(n) == [kind |-> "Number", number |-> n]

JsonBoolean(b) == [kind |-> "Boolean", bool |-> b]

JsonNull == [kind |-> "Null"]

JsonArray(items) == [kind |-> "Array", items |-> items]

JsonObject(entries) == [kind |-> "Object", entries |-> entries]

\* IsSeparator without the depth counters: every Comma separates
IsSeparatorAnyDepth(tt, n_bracket, n_brace) == tt = "Comma"

\* n_bracket == 0 && n_brace == 0 on a Comma: the comma separates
IsSeparator(tt, n_bracket, n_brace) == tt = "Comma" /\ n_bracket = 0 /\ n_brace = 0

\* &tokens[(last_idx - 3)..] of parse_value: the subtraction is on usize, and
\* below zero it panics (overflow check) or wraps to a start past the slice's
\* end (panic of the slice index): <<>> stands for either
EndView(last_idx) == IF last_idx >= 3 THEN <<last_idx - 3>> ELSE <<>>

\* &tokens[(idx - 1)..] of parse_object's BeforeKey arm, on usize likewise
KeyView(i) == IF i >= 1 THEN <<i - 1>> ELSE <<>>

\* &key.slice[1..(key.slice.len() - 1)]: <<lo, hi>> of the text between the quotes
StripQuotes(tok) == IF tok.hi - tok.lo >= 2 THEN <<tok.lo + 1, tok.hi - 1>> ELSE <<>>

\* Insert that keeps the value a key already has
InsertKeepFirst(obj, k, v) == obj @@ (k :> v)

\* obj.insert(k, v)
Insert(obj, k, v) == (k :> v) @@ obj

\* Depth that counts brackets only
DepthBracketsOnly(tt, n_bracket, n_brace) ==
    CASE tt = "LeftBracket" -> <<n_bracket + 1, n_brace>>
      [] tt = "RightBracket" -> <<n_bracket - 1, n_brace>>
      [] OTHER -> <<n_bracket, n_brace>>

\* the depth counters after a token that is no separator
Depth(tt, n_bracket, n_brace) ==
    CASE tt = "LeftBracket" -> <<n_bracket + 1, n_brace>>
      [] tt = "LeftBrace" -> <<n_bracket, n_brace + 1>>
      [] tt = "RightBracket" -> <<n_bracket - 1, n_brace>>
      [] tt = "RightBrace" -> <<n_bracket, n_brace - 1>>
      [] OTHER -> <<n_bracket, n_brace>>

RECURSIVE parse_value(_, _), parse_array(_, _), parse_object(_, _)
RECURSIVE ArrayLoop(_, _, _, _, _, _, _), ObjectLoop(_, _, _, _, _, _, _)

\* a primitive token that is the sole token of its slice
Primitive(tok) ==
    CASE tok.token_type = "String" ->
           IF StripQuotes(tok) = <<>> THEN Panic("slice index starts after its end")
           ELSE Ok(JsonString(StripQuotes(tok)[1], StripQuotes(tok)[2]))
      [] tok.token_type = "Number" ->
           IF JsonNumberParse(Text(tok)) = <<>> THEN Panic("called Result::unwrap() on an Err value")
           ELSE Ok(JsonNumber(JsonNumberParse(Text(tok))[1]))
      [] tok.token_type = "True" -> Ok(JsonBoolean(TRUE))
      [] tok.token_type = "False" -> Ok(JsonBoolean(FALSE))
      [] tok.token_type = "Null" -> Ok(JsonNull)

\* the LeftBracket / LeftBrace arms: open is the token at lo
Container(lo, hi, right) ==
    LET len == hi - lo
        last_idx == len - 1
    IN  IF len < 2
        THEN ParseError(IF right = "RightBracket" THEN "Incomplete array" ELSE "Incomplete object",
                        lo, lo, hi)
        ELSE IF Tok(lo + last_idx).token_type # right
        THEN IF EndView(last_idx) = <<>> THEN Panic("slice index out of range")
             ELSE ParseError("Invalid token at the end of document",
                             lo + last_idx, lo + EndView(last_idx)[1], hi)
        ELSE IF right = "RightBracket" THEN parse_array(lo + 1, lo + last_idx)
        ELSE parse_object(lo + 1, lo + last_idx)

\* SoleToken that lets tokens follow the first one
SoleTokenOrMore(lo, hi) == hi - lo >= 1

\* the length 1 of the patterns (JsonTokenType::String, 1) .. (JsonTokenType::Null, 1)
SoleToken(lo, hi) == hi - lo = 1

\* the closing token the opening token tt asks for
Closing(tt) == IF tt = "LeftBracket" THEN "RightBracket" ELSE "RightBrace"

parse_value(lo, hi) ==
    IF hi = lo THEN Panic("Empty JSON is invalid JSON")
    ELSE LET tok == Tok(lo)
             tt == tok.token_type
         IN  CASE tt \in {"LeftBracket", "LeftBrace"} -> Container(lo, hi, Closing(tt))
               [] tt \in {"String", "Number", "True", "False", "Null"} /\ SoleToken(lo, hi) ->
                    Primitive(tok)
               [] OTHER -> ParseError("Invalid JSON token stream", lo, lo, hi)

\* LastElement that never finds a last element
LastElementNever(i, start) == FALSE

\* if idx > start, at idx == len: tokens stand after the last separator
LastElement(i, start) == i > start

\* One iteration of the loop of parse_array over &tokens[lo..lo + len]; r is
\* parse_value(&tokens[start..idx]), used where the code calls it.
ArrayStep(lo, len, i, start, n_bracket, n_brace, array, r) ==
    LET tt == Tok(lo + i).token_type
        sep == IsSeparator(tt, n_bracket, n_brace)
        d == Depth(tt, n_bracket, n_brace)
    IN  IF i = len
        THEN IF LastElement(i, start)
             THEN IF r.tag = "Ok" THEN Ok(JsonArray(Append(array, r.value))) ELSE r
             ELSE Ok(JsonArray(array))
        ELSE IF sep /\ r.tag # "Ok" THEN r
        ELSE ArrayLoop(lo, len, i + 1,
                       IF sep THEN i + 1 ELSE start,
                       IF sep THEN n_bracket ELSE d[1],
                       IF sep THEN n_brace ELSE d[2],
                       IF sep THEN Append(array, r.value) ELSE array)

ArrayLoop(lo, len, i, start, n_bracket, n_brace, array) ==
    ArrayStep(lo, len, i, start, n_bracket, n_brace, array, parse_value(lo + start, lo + i))

parse_array(lo, hi) == ArrayLoop(lo, hi - lo, 0, 0, 0, 0, <<>>)

BeforeKey == [s |-> "BeforeKey"]

Key(tok) == [s |-> "Key", key |-> tok]

Column(tok, start) == [s |-> "Column", key |-> tok, start |-> start]

\* obj.insert(k, v) with k the key without its quotes
InsertKey(obj, key, v) ==
    LET k == StripQuotes(key)
    IN  Insert(obj, Slice(source, k[1], k[2]), v)

Stop(r) == [stop |-> TRUE, r |-> r]

Continue(n_bracket, n_brace, st, obj) ==
    [stop |-> FALSE, n_bracket |-> n_bracket, n_brace |-> n_brace, st |-> st, obj |-> obj]

\* match state { .. } of parse_object's loop on the token at idx; r is
\* parse_value(&tokens[start..idx]) for the pending key
ObjectMatch(lo, len, i, n_bracket, n_brace, st, obj, r) ==
    LET tok == Tok(lo + i)
        tt == tok.token_type
        d == Depth(tt, n_bracket, n_brace)
    IN  CASE st.s = "BeforeKey" ->
               IF tt # "String"
               THEN IF KeyView(i) = <<>> THEN Stop(Panic("slice index out of range"))
                    ELSE Stop(ParseError("Unexpected token in place of string key in object",
                                         lo + i, lo + KeyView(i)[1], lo + len))
               ELSE Continue(n_bracket, n_brace, Key(tok), obj)
          [] st.s = "Key" ->
               IF tt # "Column"
               THEN Stop(ParseError("Expected ':' token", lo + i, lo, lo + len))
               ELSE Continue(n_bracket, n_brace, Column(st.key, i + 1), obj)
          [] st.s = "Column" ->
               IF IsSeparator(tt, n_bracket, n_brace)
               THEN IF r.tag = "Ok"
                    THEN Continue(n_bracket, n_brace, BeforeKey, InsertKey(obj, st.key, r.value))
                    ELSE Stop(r)
               ELSE Continue(d[1], d[2], st, obj)

\* ObjectEnd that closes the object whatever is pending
ObjectEndLenient(lo, len, i, st, obj, r) ==
    IF st.s = "Column" /\ i > st.start
    THEN IF r.tag = "Ok" THEN Ok(JsonObject(InsertKey(obj, st.key, r.value))) ELSE r
    ELSE Ok(JsonObject(obj))

\* if idx == len { match state { .. } break; }
ObjectEnd(lo, len, i, st, obj, r) ==
    CASE st.s = "BeforeKey" -> Ok(JsonObject(obj))
      [] st.s = "Column" /\ i > st.start ->
           IF r.tag = "Ok" THEN Ok(JsonObject(InsertKey(obj, st.key, r.value))) ELSE r
      [] st.s = "Column" /\ ~(i > st.start) ->
           ParseError("start >= idx", lo + i - 1, lo, lo + len)
      [] st.s = "Key" -> ParseError("Incomplete object", lo + i - 1, lo, lo + len)

\* idx += 1, and the next iteration
ObjectResume(lo, len, i, next) ==
    IF next.stop THEN next.r
    ELSE ObjectLoop(lo, len, i + 1, next.n_bracket, next.n_brace, next.st, next.obj)

\* the value of the pending key: the key's quotes are sliced off, then
\* parse_value(&tokens[start..idx]) is called
PendingValue(lo, i, st) ==
    IF st.s # "Column" THEN NoResult
    ELSE IF StripQuotes(st.key) = <<>> THEN Panic("slice index starts after its end")
    ELSE parse_value(lo + st.start, lo + i)

\* one iteration of the loop of parse_object over &tokens[lo..lo + len]
ObjectStep(lo, len, i, n_bracket, n_brace, st, obj, r) ==
    IF i = len THEN ObjectEnd(lo, len, i, st, obj, r)
    ELSE ObjectResume(lo, len, i, ObjectMatch(lo, len, i, n_bracket, n_brace, st, obj, r))

ObjectLoop(lo, len, i, n_bracket, n_brace, st, obj) ==
    ObjectStep(lo, len, i, n_bracket, n_brace, st, obj, PendingValue(lo, i, st))

parse_object(lo, hi) == ObjectLoop(lo, hi - lo, 0, 0, 0, BeforeKey, <<>>)

(***************************************************************************)
(* parse: lex, then parse_value on everything lex returned.                *)
(***************************************************************************)
\* LexFinished that lets parse_value start on the tokens lex has pushed so far
LexStarted == pc \in {"lex", "lexed"}

\* let tokens = lex(json); lex has returned when parse_value is called
LexFinished == pc = "lexed"

\* match parse_value(&tokens) { Ok(v) => v, Err(e) => panic!("{:#?}", e) }
Parse ==
    /\ LexFinished
    /\ called' = "parse"
    /\ result' = parse_value(0, Len(tokens))
    /\ pc' = IF result'.tag = "Ok" THEN "done" ELSE "panic"
    /\ UNCHANGED <<source, doc, indices, idx, state, current, tokens>>

Init ==
    /\ source \in Sources
    /\ doc = NoDoc
    /\ pc = "lex"
    /\ indices = 0
    /\ idx = 0
    /\ state = "-"
    /\ current = 0
    /\ tokens = <<>>
    /\ called = "-"
    /\ result = NoResult

Next == Lex \/ Parse

Spec == Init /\ [][Next]_vars

(***************************************************************************)
(* SpecNumber: parse on the texts over the characters of numbers, their    *)
(* delimiters, a blank and ':'.                                            *)
(***************************************************************************)
InitNumber ==
    /\ source \in NumSources
    /\ doc = NoDoc
    /\ pc = "lex"
    /\ indices = 0
    /\ idx = 0
    /\ state = "-"
    /\ current = 0
    /\ tokens = <<>>
    /\ called = "-"
    /\ result = NoResult

NextNumber ==
    \/ LexReturn
    \/ LexWhitespace
    \/ LexSingleChar
    \/ LexInvalid
    \/ LexNumberStart
    \/ NumberStep
    \/ NumberPanic
    \/ NumberBreak
    \/ Parse

SpecNumber == InitNumber /\ [][NextNumber]_vars

(***************************************************************************)
(* SpecStructural: parse on the texts made of whitespace and the six       *)
(* structural characters.                                                  *)
(***************************************************************************)
StructChars == {" ", "\n"} \cup SingleCharTokens

StructSources == SeqsUpTo(StructChars, MaxStructLen)

InitStructural ==
    /\ source \in StructSources
    /\ doc = NoDoc
    /\ pc = "lex"
    /\ indices = 0
    /\ idx = 0
    /\ state = "-"
    /\ current = 0
    /\ tokens = <<>>
    /\ called = "-"
    /\ result = NoResult

NextStructural ==
    \/ LexReturn
    \/ LexWhitespace
    \/ LexSingleChar
    \/ Parse

SpecStructural == InitStructural /\ [][NextStructural]_vars

(***************************************************************************)
(* SpecString: parse on the texts that open a string: a '"' followed by    *)
(* quotes, backslashes, 'u' and a character that is no escape.             *)
(***************************************************************************)
StrChars == {"\"", "\\", "u", "x"}

StrSources == {<<"\"">> \o body : body \in SeqsUpTo(StrChars, MaxStrLen)}

InitString ==
    /\ source \in StrSources
    /\ doc = NoDoc
    /\ pc = "lex"
    /\ indices = 0
    /\ idx = 0
    /\ state = "-"
    /\ current = 0
    /\ tokens = <<>>
    /\ called = "-"
    /\ result = NoResult

NextString ==
    \/ LexReturn
    \/ LexStringStart
    \/ LexInvalid
    \/ StringChar
    \/ StringEscape
    \/ StringClose
    \/ StringEof
    \/ Parse

SpecString == InitString /\ [][NextString]_vars

(***************************************************************************)
(* SpecTexts: parse on the texts of Spec, SpecNumber, SpecStructural and   *)
(* SpecString together.                                                    *)
(***************************************************************************)
Texts == Sources \cup NumSources \cup StructSources \cup StrSources

InitTexts ==
    /\ source \in Texts
    /\ doc = NoDoc
    /\ pc = "lex"
    /\ indices = 0
    /\ idx = 0
    /\ state = "-"
    /\ current = 0
    /\ tokens = <<>>
    /\ called = "-"
    /\ result = NoResult

SpecTexts == InitTexts /\ [][Next]_vars

(***************************************************************************)
(* SpecTokens: parse_value, parse_array and parse_object applied to the    *)
(* token slices lex can return.  A token sequence is laid out as the       *)
(* tokens of the text that writes each token's lexeme followed by a blank. *)
(***************************************************************************)
Lexeme(tt, text) == [tt |-> tt, text |-> text]

Lexemes ==
    {Lexeme(token_type_single_char(c), <<c>>) : c \in SingleCharTokens}
    \cup {Lexeme("String", <<"\"", "a", "\"">>), Lexeme("Number", <<"1">>),
          Lexeme("True", KwTrue), Lexeme("False", KwFalse), Lexeme("Null", KwNull)}

RECURSIVE Render(_)
Render(ls) == IF ls = <<>> THEN <<>> ELSE Head(ls).text \o <<" ">> \o Render(Tail(ls))

RECURSIVE Layout(_, _)
Layout(ls, at) ==
    IF ls = <<>> THEN <<>>
    ELSE <<JsonToken(Head(ls).tt, at, at + Len(Head(ls).text))>>
         \o Layout(Tail(ls), at + Len(Head(ls).text) + 1)

\* the state in which lex has returned the tokens of Render(ls)
Lexed(ls) ==
    /\ source = Render(ls)
    /\ tokens = Layout(ls, 0)
    /\ indices = Len(source)
    /\ idx = 0
    /\ state = "-"
    /\ current = 0
    /\ called = "-"
    /\ result = NoResult

InitTokens ==
    /\ \E ls \in SeqsUpTo(Lexemes, MaxToks) : Lexed(ls)
    /\ doc = NoDoc
    /\ pc = "call"

CallParseValue ==
    /\ pc = "call"
    /\ called' = "parse_value"
    /\ result' = parse_value(0, Len(tokens))
    /\ pc' = "returned"
    /\ UNCHANGED <<source, doc, indices, idx, state, current, tokens>>

CallParseArray ==
    /\ pc = "call"
    /\ called' = "parse_array"
    /\ result' = parse_array(0, Len(tokens))
    /\ pc' = "returned"
    /\ UNCHANGED <<source, doc, indices, idx, state, current, tokens>>

CallParseObject ==
    /\ pc = "call"
    /\ called' = "parse_object"
    /\ result' = parse_object(0, Len(tokens))
    /\ pc' = "returned"
    /\ UNCHANGED <<source, doc, indices, idx, state, current, tokens>>

NextTokens == CallParseValue \/ CallParseArray \/ CallParseObject

SpecTokens == InitTokens /\ [][NextTokens]_vars

(***************************************************************************)
(* SpecDocs: parse_value applied to the tokens of well-formed documents,   *)
(* the documents of the JSON grammar that take at most MaxDocToks tokens.  *)
(***************************************************************************)
Leaf(lex) == [kind |-> "Leaf", lex |-> lex]

ArrayDoc(items) == [kind |-> "Array", items |-> items]

\* pairs: a sequence of [key |-> a String lexeme, value |-> a document]
ObjectDoc(pairs) == [kind |-> "Object", pairs |-> pairs]

Pair(key, value) == [key |-> key, value |-> value]

Leaves == {Leaf(Lexeme("Number", <<"1">>)), Leaf(Lexeme("String", <<"\"", "b", "\"">>)),
           Leaf(Lexeme("Null", KwNull))}

Keys == {Lexeme("String", <<"\"", "a", "\"">>), Lexeme("String", <<"\"", "b", "\"">>)}

\* Gen[n]: the documents of exactly n tokens, the non-empty element lists of
\* n tokens (commas included) and the non-empty pair lists of n tokens
Gen[n \in 0..MaxDocToks + 1] ==
    LET arrays == IF n < 2 THEN {}
                  ELSE IF n = 2 THEN {ArrayDoc(<<>>)}
                  ELSE {ArrayDoc(l) : l \in Gen[n - 2].lists}
        objects == IF n < 2 THEN {}
                   ELSE IF n = 2 THEN {ObjectDoc(<<>>)}
                   ELSE {ObjectDoc(l) : l \in Gen[n - 2].pairs}
        docs == (IF n = 1 THEN Leaves ELSE {}) \cup arrays \cup objects
        lists == {<<d>> : d \in docs}
                 \cup UNION {{<<d>> \o l : d \in Gen[k].docs, l \in Gen[n - k - 1].lists} :
                             k \in 1..(n - 2)}
        pairs == (IF n >= 3 THEN {<<Pair(key, d)>> : key \in Keys, d \in Gen[n - 2].docs} ELSE {})
                 \cup UNION {{<<Pair(key, d)>> \o l :
                                 key \in Keys, d \in Gen[k].docs, l \in Gen[n - k - 3].pairs} :
                             k \in 1..(n - 4)}
    IN  [docs |-> docs, lists |-> lists, pairs |-> pairs]

Docs == UNION {Gen[n].docs : n \in 1..MaxDocToks}

LexemeOf(c) == Lexeme(token_type_single_char(c), <<c>>)

RECURSIVE Flat(_), FlatItems(_), FlatPairs(_)
\* the lexemes of a document, in the order of the text
Flat(d) ==
    CASE d.kind = "Leaf" -> <<d.lex>>
      [] d.kind = "Array" -> <<LexemeOf("[")>> \o FlatItems(d.items) \o <<LexemeOf("]")>>
      [] d.kind = "Object" -> <<LexemeOf("{")>> \o FlatPairs(d.pairs) \o <<LexemeOf("}")>>

FlatItems(items) ==
    IF items = <<>> THEN <<>>
    ELSE Flat(Head(items))
         \o (IF Len(items) > 1 THEN <<LexemeOf(",")>> ELSE <<>>) \o FlatItems(Tail(items))

FlatPairs(pairs) ==
    IF pairs = <<>> THEN <<>>
    ELSE <<Head(pairs).key, LexemeOf(":")>> \o Flat(Head(pairs).value)
         \o (IF Len(pairs) > 1 THEN <<LexemeOf(",")>> ELSE <<>>) \o FlatPairs(Tail(pairs))

InitDocs ==
    /\ \E d \in Docs : doc = d /\ Lexed(Flat(d))
    /\ pc = "call"

NextDocs == CallParseValue

SpecDocs == InitDocs /\ [][NextDocs]_vars

(***************************************************************************)
(* SpecNearDocs: parse_value applied to the tokens of the well-formed      *)
(* documents of at most MaxNearToks tokens, whole or with one token left   *)
(* out.                                                                    *)
(***************************************************************************)
NearDocs == UNION {Gen[n].docs : n \in 1..MaxNearToks}

\* ls without its k-th lexeme (ls itself for k = 0)
Without(ls, k) == SubSeq(ls, 1, k - 1) \o SubSeq(ls, k + 1, Len(ls))

InitNearDocs ==
    /\ \E d \in NearDocs : \E k \in 0..Len(Flat(d)) : Lexed(Without(Flat(d), k))
    /\ doc = NoDoc
    /\ pc = "call"

NextNearDocs == CallParseValue

SpecNearDocs == InitNearDocs /\ [][NextNearDocs]_vars

(***************************************************************************)
(* SpecRuns: the runs of parse on texts and of parse_value on the tokens   *)
(* of documents, whole or with one token left out, under the fairness of a *)
(* running program: a step that can be taken is taken.                     *)
(***************************************************************************)
\* the texts of SpecTexts of one fragment or character less
RunTexts ==
    {Flatten(fs) : fs \in SeqsUpTo(SrcFrags, MaxLen - 1)}
    \cup SeqsUpTo(NumChars, MaxNumLen - 1)
    \cup SeqsUpTo(StructChars, MaxStructLen - 1)
    \cup {<<"\"">> \o body : body \in SeqsUpTo(StrChars, MaxStrLen - 1)}

\* the documents of SpecNearDocs of four tokens less
RunDocs == UNION {Gen[n].docs : n \in 1..(MaxNearToks - 4)}

\* before the program is handed its input
InitRuns ==
    /\ source = <<>>
    /\ doc = NoDoc
    /\ pc = "start"
    /\ indices = 0
    /\ idx = 0
    /\ state = "-"
    /\ current = 0
    /\ tokens = <<>>
    /\ called = "-"
    /\ result = NoResult

\* parse is entered with a text
BeginParse ==
    /\ pc = "start"
    /\ source' \in RunTexts
    /\ pc' = "lex"
    /\ UNCHANGED <<doc, indices, idx, state, current, tokens, called, result>>

\* parse_value is about to be applied to the tokens of a document, whole or
\* with one token left out
BeginParseValue ==
    /\ pc = "start"
    /\ \E d \in RunDocs : \E k \in 0..Len(Flat(d)) :
           LET ls == Without(Flat(d), k)
           IN  /\ source' = Render(ls)
               /\ tokens' = Layout(ls, 0)
               /\ indices' = Len(Render(ls))
    /\ pc' = "call"
    /\ UNCHANGED <<doc, idx, state, current, called, result>>

NextRuns == BeginParse \/ BeginParseValue \/ Lex \/ Parse \/ CallParseValue

SpecRuns == InitRuns /\ [][NextRuns]_vars /\ WF_vars(NextRuns)

(***************************************************************************)
(* Properties of lex.                                                      *)
(***************************************************************************)
\* lex has returned its tokens (parse may have gone on from there)
LexReturned == pc = "lexed" \/ called = "parse"

\* lex has panicked
LexPanicked == pc = "panic" /\ called = "-"

\* the character at offset p of the source
At(p) == source[p + 1]

NumberChars == Digits \cup {"-", "+", ".", "e", "E"}

Delimiters == {",", "}", "]"}

RECURSIVE RunStart(_)
\* the offset at which the run of number characters that ends before p starts
RunStart(p) == IF p > 0 /\ At(p - 1) \in NumberChars THEN RunStart(p - 1) ELSE p

\* the tokens whose span holds offset p
Covering(p) == {k \in 1..Len(tokens) : tokens[k].lo <= p /\ p < tokens[k].hi}

\* a delimiter at offset p that directly follows a character of a number
AdjacentDelimiter(p) == p > 0 /\ p < Len(source) /\ At(p) \in Delimiters /\ At(p - 1) \in NumberChars

\* C1: when lex returns, every ',', '}' or ']' that directly follows a number
\* is covered by exactly one token, of the delimiter's type and one character
\* long, and the token before it is the Number token that spans exactly the
\* number's characters.
C1_NumberThenDelimiter ==
    LexReturned =>
        \A p \in 0..(Len(source) - 1) :
            AdjacentDelimiter(p) =>
                \E k \in 2..Len(tokens) :
                    /\ tokens[k] = JsonToken(token_type_single_char(At(p)), p, p + 1)
                    /\ tokens[k - 1] = JsonToken("Number", RunStart(p), p)
                    /\ Covering(p) = {k}

\* lex returned a number of three characters or more directly before a delimiter
C1_Witness ==
    /\ pc = "lexed"
    /\ \E p \in 0..(Len(source) - 1) : AdjacentDelimiter(p) /\ p - RunStart(p) >= 3
    /\ Len(tokens) >= 2

\* C7: no Number token lex returns ends with '.', 'e', 'E', '+' or '-' (a '.'
\* and an exponent mark are followed by a digit, whatever ends the number).
C7_NumberGrammarEnforced ==
    LexReturned =>
        \A k \in 1..Len(tokens) :
            tokens[k].token_type = "Number" =>
                At(tokens[k].hi - 1) \notin {".", "e", "E", "+", "-"}

\* offset i starts a token: the text starts there, or a character that no
\* number holds stands before it
TokenStart(i) == i = 0 \/ At(i - 1) \notin NumberChars

\* the integer part of a number is the '0' at offset i
IntegerPartZero(i) ==
    /\ At(i) = "0"
    /\ \/ TokenStart(i)
       \/ i > 0 /\ At(i - 1) = "-" /\ TokenStart(i - 1)

\* text is -?0(.digits)?((e|E)(+|-)?digits)?, read off the JSON grammar
ZeroNumber(text) ==
    LET i0 == IF text # <<>> /\ text[1] = "-" THEN 2 ELSE 1
        dot == i0 + 1 <= Len(text) /\ text[i0 + 1] = "."
        nf == IF dot THEN DigitRun(text, i0 + 2) ELSE 0
        i1 == IF dot THEN i0 + 2 + nf ELSE i0 + 1
        hasExp == i1 <= Len(text) /\ text[i1] \in {"e", "E"}
        i2 == IF hasExp /\ i1 + 1 <= Len(text) /\ text[i1 + 1] \in {"+", "-"} THEN i1 + 2 ELSE i1 + 1
        ne == IF hasExp THEN DigitRun(text, i2) ELSE 0
    IN  /\ i0 <= Len(text) /\ text[i0] = "0"
        /\ dot => nf > 0
        /\ hasExp => ne > 0
        /\ (IF hasExp THEN i2 + ne ELSE i1) = Len(text) + 1

\* C8: lex never returns on a text that holds a number whose integer part is
\* a '0' directly followed by a digit or '-' (it panics), and on a text that is
\* a zero alone, signed or not, with or without fraction and exponent, lex does
\* not panic and returns the one Number token that spans the text.
C8_LeadingZero ==
    /\ LexReturned =>
           \A i \in 0..(Len(source) - 2) :
               ~(IntegerPartZero(i) /\ At(i + 1) \in Digits \cup {"-"})
    /\ ZeroNumber(source) =>
           /\ ~LexPanicked
           /\ LexReturned => tokens = <<JsonToken("Number", 0, Len(source))>>

\* lex panicked in FirstZero on the "01" of "-01"
C8_Witness ==
    /\ LexPanicked
    /\ state = "FirstZero"
    /\ Len(source) >= 3
    /\ SubSeq(source, 1, 3) = <<"-", "0", "1">>
    /\ tokens = <<>>

(***************************************************************************)
(* Properties of the parser.                                               *)
(***************************************************************************)
\* fn was applied to the whole of tokens and has returned (or panicked)
Returned(fn) == pc = "returned" /\ called = fn

\* the type of the token at offset i
TT(i) == tokens[i + 1].token_type

Primitives == {"String", "Number", "True", "False", "Null"}

\* r is a ParseError whose token and view lie in tokens
IsParseError(r) ==
    /\ r.tag = "Err"
    /\ r.token \in 0..(Len(tokens) - 1)
    /\ 0 <= r.view[1] /\ r.view[1] <= r.view[2] /\ r.view[2] <= Len(tokens)

KeyText(key) == SubSeq(key.text, 2, Len(key.text) - 1)

RECURSIVE Expect(_), ExpectItems(_), ExpectEntries(_)
\* the value a document stands for; a repeated key keeps its last value
Expect(d) ==
    CASE d.kind = "Leaf" /\ d.lex.tt = "String" -> [kind |-> "String", text |-> KeyText(d.lex)]
      [] d.kind = "Leaf" /\ d.lex.tt = "Number" -> JsonNumber(JsonNumberParse(d.lex.text)[1])
      [] d.kind = "Leaf" /\ d.lex.tt = "True" -> JsonBoolean(TRUE)
      [] d.kind = "Leaf" /\ d.lex.tt = "False" -> JsonBoolean(FALSE)
      [] d.kind = "Leaf" /\ d.lex.tt = "Null" -> JsonNull
      [] d.kind = "Array" -> JsonArray(ExpectItems(d.items))
      [] d.kind = "Object" -> JsonObject(ExpectEntries(d.pairs))

ExpectItems(items) ==
    IF items = <<>> THEN <<>> ELSE <<Expect(Head(items))>> \o ExpectItems(Tail(items))

ExpectEntries(pairs) ==
    IF pairs = <<>> THEN <<>>
    ELSE LET last == pairs[Len(pairs)]
         IN  (KeyText(last.key) :> Expect(last.value))
             @@ ExpectEntries(SubSeq(pairs, 1, Len(pairs) - 1))

RECURSIVE Content(_)
\* a value with the text of each String in place of its span
Content(v) ==
    CASE v.kind = "String" -> [kind |-> "String", text |-> Slice(source, v.lo, v.hi)]
      [] v.kind = "Array" -> JsonArray([i \in 1..Len(v.items) |-> Content(v.items[i])])
      [] v.kind = "Object" -> JsonObject([k \in DOMAIN v.entries |-> Content(v.entries[k])])
      [] OTHER -> v

\* C2: parse_value on the tokens of a well-formed array or object returns the
\* value of the document: one element per element of the array, one entry per
\* key of the object, and so at every depth (no comma of a nested array or
\* object splits the container around it).
C2_NestedCommasDoNotSplit ==
    (Returned("parse_value") /\ doc.kind \in {"Array", "Object"}) =>
        /\ result.tag = "Ok"
        /\ Content(result.value) = Expect(doc)

\* parse_value returned an array of two arrays, the first of two elements
C2_Witness ==
    /\ Returned("parse_value")
    /\ doc.kind = "Array"
    /\ Len(doc.items) = 2
    /\ doc.items[1].kind = "Array" /\ Len(doc.items[1].items) = 2
    /\ doc.items[2].kind = "Array"
    /\ result.tag = "Ok"
    /\ Len(result.value.items) = 2
    /\ Len(result.value.items[1].items) = 2

\* tokens opens an array or an object and does not close it
Unclosed ==
    /\ Len(tokens) >= 1
    /\ TT(0) \in {"LeftBracket", "LeftBrace"}
    /\ Len(tokens) < 2 \/ TT(Len(tokens) - 1) # Closing(TT(0))

\* C3: parse_value on a slice that opens an array or an object and has fewer
\* than 2 tokens or does not end with the matching closing token returns a
\* ParseError with a token and a view of the slice, whatever the slice's length.
C3_UnclosedIsParseError ==
    (Returned("parse_value") /\ Unclosed) => IsParseError(result)

RECURSIVE PairsBefore(_)
\* the tokens before offset j are pairs String Column primitive Comma
PairsBefore(j) ==
    \/ j = 0
    \/ /\ j >= 4
       /\ TT(j - 4) = "String" /\ TT(j - 3) = "Column"
       /\ TT(j - 2) \in Primitives /\ TT(j - 1) = "Comma"
       /\ PairsBefore(j - 4)

\* parse_object is in BeforeKey at offset j, on a token that is no String
BadKeyAt(j) == j < Len(tokens) /\ PairsBefore(j) /\ TT(j) # "String"

\* C4: parse_object, in BeforeKey on a token that is no String, at the first
\* token of the interior or later, returns the ParseError "unexpected token in
\* place of string key" on that token, with a view of the slice.
C4_BadKeyIsParseError ==
    Returned("parse_object") =>
        \A j \in 0..(Len(tokens) - 1) :
            BadKeyAt(j) =>
                /\ IsParseError(result)
                /\ result.token = j
                /\ result.msg = "Unexpected token in place of string key in object"

\* C5: parse_object accepts no interior that ends with a Comma: it ends
\* successfully with no pending key only on the empty interior.
C5_TrailingCommaRejected ==
    (Returned("parse_object") /\ Len(tokens) > 0 /\ TT(Len(tokens) - 1) = "Comma") =>
        result.tag # "Ok"

\* tokens is an array, of primitives and commas only, with a comma that leads,
\* trails or follows another comma
StrayComma ==
    /\ Len(tokens) >= 3
    /\ TT(0) = "LeftBracket" /\ TT(Len(tokens) - 1) = "RightBracket"
    /\ \A i \in 1..(Len(tokens) - 2) : TT(i) \in Primitives \cup {"Comma"}
    /\ \/ TT(1) = "Comma"
       \/ TT(Len(tokens) - 2) = "Comma"
       \/ \E i \in 1..(Len(tokens) - 3) : TT(i) = "Comma" /\ TT(i + 1) = "Comma"

\* C6: parse_value on an array with a leading, a trailing or a doubled comma
\* returns a ParseError with a token and a view of the slice.
C6_StrayCommaIsParseError ==
    (Returned("parse_value") /\ StrayComma) => IsParseError(result)

\* text is an optional '-' and digits
IntegerText(text) ==
    LET i0 == IF text # <<>> /\ text[1] = "-" THEN 2 ELSE 1
    IN  i0 <= Len(text) /\ DigitRun(text, i0) = Len(text) - i0 + 1

\* C9: when lex returns one primitive token, parse returns its value: the
\* boolean of True and False, Null, a Number (an Integer for the text of an
\* integer within i64), the String of the token's span without its first and
\* last byte.
C9_SinglePrimitive ==
    (called = "parse" /\ Len(tokens) = 1 /\ TT(0) \in Primitives) =>
        /\ pc = "done"
        /\ result.tag = "Ok"
        /\ TT(0) = "True" => result.value = JsonBoolean(TRUE)
        /\ TT(0) = "False" => result.value = JsonBoolean(FALSE)
        /\ TT(0) = "Null" => result.value = JsonNull
        /\ TT(0) = "String" => result.value = JsonString(tokens[1].lo + 1, tokens[1].hi - 1)
        /\ TT(0) = "Number" =>
               /\ result.value.kind = "Number"
               /\ (IntegerText(Text(tokens[1])) /\ Len(Text(tokens[1])) <= 18)
                      => result.value.number.variant = "Integer"

\* C10: parse_value returns a value for a slice that starts with a primitive
\* token only if the slice holds that token alone; on a longer slice that
\* starts with a primitive, and on a slice that starts with Comma, Column,
\* RightBracket or RightBrace, it returns a ParseError on the first token.
C10_PrimitiveAlone ==
    (Returned("parse_value") /\ Len(tokens) >= 1) =>
        /\ (TT(0) \in Primitives /\ result.tag = "Ok") => Len(tokens) = 1
        /\ \/ TT(0) \in Primitives /\ Len(tokens) >= 2
           \/ TT(0) \in {"Comma", "Column", "RightBracket", "RightBrace"}
           => IsParseError(result) /\ result.token = 0

\* parse_value returned a ParseError for a primitive followed by two tokens
C10_Witness ==
    /\ Returned("parse_value")
    /\ Len(tokens) = 3
    /\ TT(0) = "Number"
    /\ result.tag = "Err"
    /\ result.token = 0

\* the key texts of the pairs of an object document
KeyTexts(pairs) == {KeyText(pairs[j].key) : j \in 1..Len(pairs)}

\* the position of the last pair of key text k
LastPair(pairs, k) ==
    CHOOSE j \in 1..Len(pairs) :
        /\ KeyText(pairs[j].key) = k
        /\ \A i \in (j + 1)..Len(pairs) : KeyText(pairs[i].key) # k

\* a key text stands at two positions of pairs
RepeatedKey(pairs) ==
    \E i, j \in 1..Len(pairs) : i < j /\ KeyText(pairs[i].key) = KeyText(pairs[j].key)

\* C11: parse_value on a well-formed object with a repeated top-level key
\* returns an Object with one entry per distinct key, and each entry holds the
\* value of the key's last occurrence in the text.
C11_LastKeyWins ==
    (Returned("parse_value") /\ doc.kind = "Object" /\ RepeatedKey(doc.pairs)) =>
        /\ result.tag = "Ok"
        /\ result.value.kind = "Object"
        /\ DOMAIN result.value.entries = KeyTexts(doc.pairs)
        /\ \A k \in KeyTexts(doc.pairs) :
               Content(result.value.entries[k]) = Expect(doc.pairs[LastPair(doc.pairs, k)].value)

\* parse_value returned the object of two pairs of one key and two different
\* values, holding the second value
C11_Witness ==
    /\ Returned("parse_value")
    /\ doc.kind = "Object"
    /\ Len(doc.pairs) = 2
    /\ doc.pairs[1].key = doc.pairs[2].key
    /\ doc.pairs[1].value # doc.pairs[2].value
    /\ result.tag = "Ok"
    /\ Cardinality(DOMAIN result.value.entries) = 1
    /\ Content(result.value.entries[KeyText(doc.pairs[2].key)]) = Expect(doc.pairs[2].value)

\* the types of the tokens
Types == [k \in 1..Len(tokens) |-> tokens[k].token_type]

\* C12: parse_value returns the Array of no element on `[ ]` and the Object
\* of no entry on `{ }`, and parse_array returns an Array of no element if and
\* only if the slice it is given holds no token.
C12_EmptyContainers ==
    /\ (Returned("parse_value") /\ Types = <<"LeftBracket", "RightBracket">>)
           => result = Ok(JsonArray(<<>>))
    /\ (Returned("parse_value") /\ Types = <<"LeftBrace", "RightBrace">>)
           => result = Ok(JsonObject(<<>>))
    /\ Returned("parse_array")
           => ((result.tag = "Ok" /\ result.value.items = <<>>) <=> Len(tokens) = 0)

\* parse_array returned an Array of one element for an interior of one token
C12_Witness ==
    /\ Returned("parse_array")
    /\ Len(tokens) = 1
    /\ result.tag = "Ok"
    /\ Len(result.value.items) = 1

\* the token type the JSON grammar gives a structural character
StructuralType ==
    [c \in SingleCharTokens |->
        CASE c = "{" -> "LeftBrace" [] c = "}" -> "RightBrace" [] c = "," -> "Comma"
          [] c = ":" -> "Column" [] c = "[" -> "LeftBracket" [] c = "]" -> "RightBracket"]

RECURSIVE StructuralTokens(_)
\* one token per structural character of the source from offset p on
StructuralTokens(p) ==
    IF p >= Len(source) THEN <<>>
    ELSE (IF At(p) \in SingleCharTokens
          THEN <<[token_type |-> StructuralType[At(p)], lo |-> p, hi |-> p + 1]>>
          ELSE <<>>) \o StructuralTokens(p + 1)

\* the source holds whitespace and structural characters only
StructuralOnly == \A p \in 0..(Len(source) - 1) : At(p) \in Whitespace \cup SingleCharTokens

\* C13: on a source of whitespace and structural characters only, lex does
\* not panic and returns one token per structural character, in the order of
\* the text, of the character's type and spanning that character; whitespace
\* gives no token (the empty sequence for a source of whitespace only).
C13_StructuralTokens ==
    StructuralOnly =>
        /\ ~LexPanicked
        /\ LexReturned => tokens = StructuralTokens(0)

\* lex returned two tokens for a text of four characters, two of them blank
C13_Witness ==
    /\ pc = "lexed"
    /\ Len(source) = 4
    /\ Cardinality({p \in 0..3 : At(p) \in Whitespace}) = 2
    /\ At(0) \in Whitespace
    /\ Len(tokens) = 2
    /\ tokens[2].token_type = "Column"

\* the source holds no string, and a character that is lexically invalid
\* wherever it stands outside a string
LexicalViolation ==
    /\ \A p \in 0..(Len(source) - 1) : At(p) # "\""
    /\ \E p \in 0..(Len(source) - 1) : At(p) \in {"x", "\\"}

\* C14: parse_value is applied only once lex has consumed the whole source
\* and returned; before that no ParseError exists; and on a source with a
\* lexical violation lex never returns and parse_value is never applied, so
\* the failure is the lexer's panic, whatever the tokens before the violation.
C14_LexBeforeParse ==
    /\ called = "parse" => (indices = Len(source) /\ pc \in {"done", "panic"})
    /\ called = "-" => result.tag \in {"None", "Panic"}
    /\ LexicalViolation => (called = "-" /\ pc # "lexed")

\* lex panicked on an invalid character after it had pushed tokens on which
\* parse_value returns a ParseError
C14_Witness ==
    /\ LexPanicked
    /\ LexicalViolation
    /\ Len(tokens) >= 1
    /\ tokens[1].token_type \in {"Comma", "Column", "RightBracket", "RightBrace"}
    /\ parse_value(0, Len(tokens)).tag = "Err"
    /\ result.tag = "Panic"

\* text is a number of the JSON grammar:
\* -?(0|[1-9][0-9]*)(.[0-9]+)?((e|E)(+|-)?[0-9]+)?
CompleteNumber(text) ==
    LET i0 == IF text # <<>> /\ text[1] = "-" THEN 2 ELSE 1
        ni == IF i0 <= Len(text) /\ text[i0] = "0" THEN 1 ELSE DigitRun(text, i0)
        i1 == i0 + ni
        dot == i1 <= Len(text) /\ text[i1] = "."
        nf == IF dot THEN DigitRun(text, i1 + 1) ELSE 0
        i2 == IF dot THEN i1 + 1 + nf ELSE i1
        hasExp == i2 <= Len(text) /\ text[i2] \in {"e", "E"}
        i3 == IF hasExp /\ i2 + 1 <= Len(text) /\ text[i2 + 1] \in {"+", "-"} THEN i2 + 2 ELSE i2 + 1
        ne == IF hasExp THEN DigitRun(text, i3) ELSE 0
    IN  /\ ni > 0
        /\ dot => nf > 0
        /\ hasExp => ne > 0
        /\ (IF hasExp THEN i3 + ne ELSE i2) = Len(text) + 1

RECURSIVE RunEnd(_)
\* the offset at which the run of number characters from offset p on ends
RunEnd(p) == IF p < Len(source) /\ At(p) \in NumberChars THEN RunEnd(p + 1) ELSE p

\* a complete number starts a token at offset i and runs up to its terminator
NumberAt(i) ==
    /\ At(i) \in NumberChars
    /\ TokenStart(i)
    /\ CompleteNumber(Slice(source, i, RunEnd(i)))

\* C15: for a complete number that starts a token, the character that ends
\* it decides: on whitespace or the end of the text, lex, when it returns, has
\* pushed the Number token and no token at the terminator; on a character that
\* is neither ',', '}', ']' nor whitespace lex does not return.  So when lex
\* returns, a token that starts where a Number token ends is the one-character
\* token of a ',', '}' or ']'.
C15_TerminatorDecides ==
    /\ \A i \in 0..(Len(source) - 1) :
           NumberAt(i) =>
               LET j == RunEnd(i)
               IN  /\ (j = Len(source) \/ At(j) \in Whitespace) =>
                          (LexReturned =>
                              /\ \E k \in 1..Len(tokens) : tokens[k] = JsonToken("Number", i, j)
                              /\ Covering(j) = {})
                   /\ (j < Len(source) /\ At(j) \notin Whitespace \cup Delimiters) => ~LexReturned
    /\ LexReturned =>
           \A k \in 1..(Len(tokens) - 1) :
               (tokens[k].token_type = "Number" /\ tokens[k + 1].lo = tokens[k].hi) =>
                   /\ At(tokens[k + 1].lo) \in Delimiters
                   /\ tokens[k + 1].hi = tokens[k + 1].lo + 1
                   /\ tokens[k + 1].token_type = StructuralType[At(tokens[k + 1].lo)]

\* lex pushed the Number token of a number with a fraction and panicked on the
\* ':' that ends it
C15_Witness ==
    /\ LexPanicked
    /\ result.msg = "Number followed by an invalid character"
    /\ Len(tokens) = 1
    /\ tokens[1].token_type = "Number"
    /\ tokens[1].hi - tokens[1].lo >= 3
    /\ NumberAt(tokens[1].lo)
    /\ At(tokens[1].hi) = ":"

\* no closing quote before the end of the text
Unterminated == 0 - 1

\* the character after a backslash is no escape
BadEscape == 0 - 2

RECURSIVE ClosingQuote(_)
\* the offset of the first '"' from offset p on that neither follows an
\* escaping backslash nor is one of the four characters after a backslash-u
ClosingQuote(p) ==
    IF p >= Len(source) THEN Unterminated
    ELSE IF At(p) = "\"" THEN p
    ELSE IF At(p) # "\\" THEN ClosingQuote(p + 1)
    ELSE IF p + 1 >= Len(source) THEN Unterminated
    ELSE IF At(p + 1) = "u" THEN ClosingQuote(p + 6)
    ELSE IF At(p + 1) \in {"\"", "\\", "/", "b", "f", "n", "r", "t"} THEN ClosingQuote(p + 2)
    ELSE BadEscape

\* C16: every String token starts with '"', ends with the closing quote of
\* its opening quote and is 2 characters long or more; for the string a text
\* opens with, lex pushes that token without failing when the closing quote
\* exists, and pushes no token and does not return when the text ends before
\* it or a backslash is followed by a character that is no escape.
C16_StringScanner ==
    /\ \A k \in 1..Len(tokens) :
           tokens[k].token_type = "String" =>
               /\ At(tokens[k].lo) = "\""
               /\ At(tokens[k].hi - 1) = "\""
               /\ tokens[k].hi - tokens[k].lo >= 2
               /\ ClosingQuote(tokens[k].lo + 1) = tokens[k].hi - 1
    /\ (Len(source) > 0 /\ At(0) = "\"") =>
           IF ClosingQuote(1) >= 0
           THEN /\ tokens = <<>> => ~LexPanicked
                /\ tokens # <<>> => tokens[1] = JsonToken("String", 0, ClosingQuote(1) + 1)
           ELSE tokens = <<>> /\ ~LexReturned

\* lex returned the one String token of a text of 8 characters in which a
\* quote stands among the four characters after a backslash-u
C16_Witness ==
    /\ pc = "lexed"
    /\ Len(source) = 8
    /\ At(1) = "\\" /\ At(2) = "u" /\ At(4) = "\""
    /\ tokens = <<JsonToken("String", 0, 8)>>

\* parse_object is in BeforeKey at offset j, on a String token (its state is
\* Key at offset j + 1)
KeyAt(j) == j < Len(tokens) /\ PairsBefore(j) /\ TT(j) = "String"

\* C17: parse_object returns a ParseError on a token of the slice it is given
\* when the token after a key is no Column (on that token), when the slice
\* ends after a key (on the key), and when the slice ends after the Column of
\* a key (on the Column).
C17_MalformedPairIsParseError ==
    Returned("parse_object") =>
        \A j \in 0..(Len(tokens) - 1) :
            KeyAt(j) =>
                /\ (j + 1 < Len(tokens) /\ TT(j + 1) # "Column") =>
                       /\ IsParseError(result)
                       /\ result.token = j + 1
                       /\ result.msg = "Expected ':' token"
                /\ (j + 1 = Len(tokens)) =>
                       /\ IsParseError(result)
                       /\ result.token = j
                       /\ result.msg = "Incomplete object"
                /\ (j + 2 = Len(tokens) /\ TT(j + 1) = "Column") =>
                       /\ IsParseError(result)
                       /\ result.token = j + 1
                       /\ result.msg = "start >= idx"

\* parse_object returned a ParseError on the Column that ends `"a" :`
C17_Witness ==
    /\ Returned("parse_object")
    /\ Types = <<"String", "Column">>
    /\ result.tag = "Err"
    /\ result.token = 1
    /\ result.view = <<0, 2>>

\* C18: the tokens a ParseError's diagnostic shows are 5 at most and hold the
\* offending token, wherever the error stands in the slice.
C18_OffendingTokenShown ==
    result.tag = "Err" =>
        /\ Shown(result).hi - Shown(result).lo <= 5
        /\ Shown(result).lo <= result.token
        /\ result.token < Shown(result).hi

\* C19: when lex returns, each token spans one character or more of the
\* source and starts at or after the end of the token before it, every
\* character that is no whitespace lies in exactly one token, and a whitespace
\* character lies in no token or in one String token.
C19_TokensPartitionSource ==
    LexReturned =>
        /\ \A k \in 1..Len(tokens) :
               /\ 0 <= tokens[k].lo
               /\ tokens[k].lo < tokens[k].hi
               /\ tokens[k].hi <= Len(source)
        /\ \A k \in 1..(Len(tokens) - 1) : tokens[k].hi <= tokens[k + 1].lo
        /\ \A p \in 0..(Len(source) - 1) :
               IF At(p) \in Whitespace
               THEN \A k \in Covering(p) : tokens[k].token_type = "String"
               ELSE Cardinality(Covering(p)) = 1

\* lex returned a Number token, a gap of one blank, and a True token
C19_Witness ==
    /\ pc = "lexed"
    /\ Len(tokens) = 2
    /\ tokens[1].token_type = "Number"
    /\ tokens[2].token_type = "True"
    /\ tokens[2].lo = tokens[1].hi + 1
    /\ At(tokens[1].hi) \in Whitespace

\* lex is running
Lexing == pc \in {"lex", "string", "number"}

\* what lex has left to do: the characters not yet yielded, and the scanner
\* loop to leave
LexVariant == 2 * (Len(source) - indices) + (IF pc \in {"string", "number"} THEN 1 ELSE 0)

\* a step of lex consumes a character when there is one, and ends lex or
\* leaves it less to do
LexStepConsumes ==
    Lexing =>
        /\ indices < Len(source) => indices' > indices
        /\ indices' <= Len(source)
        /\ Lexing' => LexVariant' < LexVariant

\* the run has ended: parse or parse_value returned, or the program panicked
Ended == pc \in {"done", "panic", "returned"}

\* C20: every step of lex consumes a character or more, or finds the text at
\* its end and leaves its loop, so lex ends; and every run ends: lex returns
\* or panics, and parse_value, applied to a finite token slice, returns a
\* value, a ParseError or panics.
C20_Terminates == [][LexStepConsumes]_vars /\ <>Ended

\* parse_value returned the value of an array of one element in an array
C20_Witness ==
    /\ Returned("parse_value")
    /\ Len(tokens) = 5
    /\ result.tag = "Ok"
    /\ result.value.kind = "Array"
    /\ Len(result.value.items) = 1
    /\ result.value.items[1].kind = "Array"
    /\ Len(result.value.items[1].items) = 1

\* the reference parser found no value
RefFail == [ok |-> FALSE]

\* the reference parser read value v and stands at offset next
RefOk(v, next) == [ok |-> TRUE, value |-> v, next |-> next]

\* the type of the token at offset p, "End" past the last token
RefPeek(p) == IF p < Len(tokens) THEN TT(p) ELSE "End"

RECURSIVE RefValue(_), RefItems(_, _), RefPairs(_, _)
\* A recursive-descent parser of the JSON grammar that reads tokens with a
\* cursor, one token at a time, from offset p:
\*   value ::= primitive | '[' ']' | '[' value (',' value)* ']'
\*           | '{' '}' | '{' String ':' value (',' String ':' value)* '}'
RefValue(p) ==
    CASE RefPeek(p) = "String" -> RefOk(JsonString(tokens[p + 1].lo + 1, tokens[p + 1].hi - 1), p + 1)
      [] RefPeek(p) = "Number" -> RefOk(JsonNumber(JsonNumberParse(Text(tokens[p + 1]))[1]), p + 1)
      [] RefPeek(p) = "True" -> RefOk(JsonBoolean(TRUE), p + 1)
      [] RefPeek(p) = "False" -> RefOk(JsonBoolean(FALSE), p + 1)
      [] RefPeek(p) = "Null" -> RefOk(JsonNull, p + 1)
      [] RefPeek(p) = "LeftBracket" ->
           IF RefPeek(p + 1) = "RightBracket" THEN RefOk(JsonArray(<<>>), p + 2)
           ELSE RefItems(p + 1, <<>>)
      [] RefPeek(p) = "LeftBrace" ->
           IF RefPeek(p + 1) = "RightBrace" THEN RefOk(JsonObject(<<>>), p + 2)
           ELSE RefPairs(p, <<>>)
      [] OTHER -> RefFail

\* value (',' value)* ']' from offset p, after the elements of items
RefItems(p, items) ==
    LET v == RefValue(p)
    IN  IF ~v.ok THEN RefFail
        ELSE IF RefPeek(v.next) = "Comma" THEN RefItems(v.next + 1, Append(items, v.value))
        ELSE IF RefPeek(v.next) = "RightBracket"
        THEN RefOk(JsonArray(Append(items, v.value)), v.next + 1)
        ELSE RefFail

\* String ':' value (',' String ':' value)* '}' after the token at offset p
\* (the '{' or a ','), with the entries read so far; a later pair of a key
\* replaces the earlier one
RefPairs(p, entries) ==
    IF RefPeek(p + 1) # "String" \/ RefPeek(p + 2) # "Column" THEN RefFail
    ELSE LET key == Slice(source, tokens[p + 2].lo + 1, tokens[p + 2].hi - 1)
             v == RefValue(p + 3)
         IN  IF ~v.ok THEN RefFail
             ELSE IF RefPeek(v.next) = "Comma" THEN RefPairs(v.next, (key :> v.value) @@ entries)
             ELSE IF RefPeek(v.next) = "RightBrace"
             THEN RefOk(JsonObject((key :> v.value) @@ entries), v.next + 1)
             ELSE RefFail

\* the reference parser reads the whole of tokens as one value: tokens is
\* derivable from the JSON grammar
Derivable == RefValue(0).ok /\ RefValue(0).next = Len(tokens)

\* C21: the tokens of every document of the JSON grammar are derivable, and
\* on every derivable token sequence parse_value returns Ok with the tree the
\* cursor-based reference parser builds from the same tokens: the elements of
\* an Array in the order of the text, one per top-level element, and each key
\* of an Object with its last value.
C21_AgreesWithReference ==
    Returned("parse_value") =>
        /\ doc # NoDoc => Derivable
        /\ Derivable => result = Ok(RefValue(0).value)

\* parse_value returned the Object of one key whose value is an Array of two
\* elements, as the reference parser does
C21_Witness ==
    /\ Returned("parse_value")
    /\ doc.kind = "Object"
    /\ Len(doc.pairs) = 1
    /\ doc.pairs[1].value.kind = "Array"
    /\ Len(doc.pairs[1].value.items) = 2
    /\ result.tag = "Ok"
    /\ result = Ok(RefValue(0).value)
    /\ Len(result.value.entries[KeyText(doc.pairs[1].key)].items) = 2

====
